---------------------------- MODULE Spec2Model ----------------------------
(***************************************************************************)
(* A model of dtaidistance/dtw_cc.pyx: the Cython binding of the DTW       *)
(* kernel.  Three entry points are modelled, each under a specification    *)
(* of its own:                                                             *)
(*   SpecLen   distance_matrix_length(block, nb_series)                    *)
(*   Spec      distance_matrix(cur, block, **kwargs)                       *)
(*   SpecDist  distance(s1, s2, **kwargs)                                  *)
(***************************************************************************)
EXTENDS Integers, Sequences, FiniteSets, TLC

VARIABLES
    pc,          \* position of the call that is being executed
    block,       \* DTWBlock._block: [rb, re, cb, ce]
    nb_series,   \* distance_matrix_length: the int argument nb_series
    result,      \* the Python object the call returned (or the exception)
    cur,         \* distance_matrix: the sequence collection (rebound by 243/245)
    blockarg,    \* distance_matrix: the block argument, ((rb, re), (cb, ce)) or None
    lenres,      \* distance_matrix: what distance_matrix_length returned
    length,      \* distance_matrix: cdef int length
    dists,       \* distance_matrix: the array.array('d') of results
    writes,      \* how often the engine wrote each slot of dists
    oob,         \* the slots the engine wrote beyond the end of dists
    engine,      \* which batch engine distance_matrix invoked
    owner,       \* the worker each pair of the block is computed by
    done,        \* the pairs (by rank) the engine has computed
    s1,          \* distance: the first sequence
    s2,          \* distance: the second sequence
    kwargs,      \* distance: the keyword arguments
    boundscheck, \* whether the build checks the index of a memoryview
    result2      \* what the call with s1 and s2 exchanged returned

lenVars == <<block, nb_series>>
dmVars == <<cur, blockarg, lenres, length, dists, writes, oob, engine, owner, done>>
distVars == <<s1, s2, kwargs, boundscheck, result2>>
vars == <<pc, result, lenVars, dmVars, distVars>>

(***************************************************************************)
(* Bounds of the model.                                                    *)
(***************************************************************************)
\* small collection sizes 0..MaxSeries are enumerated exhaustively
MaxSeries == 6
\* block fields range over 0..MaxIdx
MaxIdx == 5
\* distance_matrix is run on collections of 0..MaxCur sequences
MaxCur == 3
\* the number of workers the pairs of a block are divided among
NumWorkers == 2
\* distance is run on sequences of 0..MaxLen elements
MaxLen == 2

(***************************************************************************)
(* C integer arithmetic.                                                   *)
(***************************************************************************)
\* the largest value of a C int (the type of nb_series and of length)
INT_MAX == 2147483647
\* the exact product a * b fits a C int (a, b >= 0)
IntMulFits(a, b) == a = 0 \/ b <= INT_MAX \div a

\* the low 32 bits of a * b, read as a two's complement int: what a 32-bit
\* multiply instruction leaves in the register (0 <= a, b <= INT_MAX)
IntMulWrap(a, b) ==
    LET \* 2^14: the product is formed limb by limb, so that no intermediate
        \* value leaves the range of the model checker's integers
        Limb == 16384
        a0 == a % Limb
        a1 == (a \div Limb) % Limb
        a2 == a \div (Limb * Limb)
        b0 == b % Limb
        b1 == (b \div Limb) % Limb
        b2 == b \div (Limb * Limb)
        c0 == a0 * b0
        c1 == a0 * b1 + a1 * b0 + (c0 \div Limb)
        c2 == ((a0 * b2) % 16) + ((a1 * b1) % 16) + ((a2 * b0) % 16) + (c1 \div Limb)
        d0 == c0 % Limb
        d1 == c1 % Limb
        d2 == c2 % 16
    IN  IF d2 >= 8 THEN (d2 - 16) * (Limb * Limb) + d1 * Limb + d0
                   ELSE d2 * (Limb * Limb) + d1 * Limb + d0

\* Python objects returned by the calls
PyInt(v) == [kind |-> "int", val |-> v]
\* an exact integer f1 * f2 that exceeds INT_MAX (kept as its factors)
PyBigInt(f1, f2) == [kind |-> "bigint", val |-> <<f1, f2>>]
PyNone == [kind |-> "None", val |-> 0]

\* the C expression a * b on two ints, assigned to a long: the values it may
\* have.  When the product overflows int the behaviour is undefined: the
\* build either leaves the wrapped 32-bit product or forms the product in
\* the width of the long it is assigned to.
IntMul(a, b) ==
    IF IntMulFits(a, b) THEN {PyInt(a * b)}
    ELSE {PyInt(IntMulWrap(a, b)), PyBigInt(a, b)}

(***************************************************************************)
(* distance_matrix_length                                                  *)
(***************************************************************************)
Block(rb, re, cb, ce) == [rb |-> rb, re |-> re, cb |-> cb, ce |-> ce]

\* lines 272-275: the closed form of the unrestricted block; / on two C
\* ints assigned to a long is the integer division
TriangleLength_noparity(n) == IntMul(n \div 2, n - 1)

TriangleLength(n) ==
    IF n % 2 = 0
    THEN IntMul(n \div 2, n - 1)
    ELSE IntMul(n, (n - 1) \div 2)

\* lines 278-283: what row ri adds to llength
RowLength_diag(b, ri) ==
    IF b.cb <= ri
    THEN IF b.ce > ri THEN b.ce - ri ELSE 0
    ELSE IF b.ce > ri THEN b.ce - b.cb ELSE 0

RowLength(b, ri) ==
    IF b.cb <= ri
    THEN IF b.ce > ri THEN b.ce - ri - 1 ELSE 0
    ELSE IF b.ce > ri THEN b.ce - b.cb ELSE 0

\* lines 277-283: the loop over range(block.rb, block.re), from row ri on
RECURSIVE RowsLength(_, _)
RowsLength(b, ri) ==
    IF ri >= b.re THEN 0 ELSE RowLength(b, ri) + RowsLength(b, ri + 1)

\* lines 270-283: the values llength may have
LLength(b, n) ==
    IF b.re = 0 /\ b.ce = 0
    THEN TriangleLength(n)
    ELSE {PyInt(RowsLength(b, b.rb))}

\* lines 284-289: slength = llength; a negative slength prints the error
\* and returns None.  The set of the objects the call may return.
distance_matrix_length(b, n) ==
    {IF llength.kind = "int" /\ llength.val < 0 THEN PyNone ELSE llength :
        llength \in LLength(b, n)}

\* the variables of distance_matrix, while no call of it is running
NoCollection == [cls |-> "none", len |-> 0, cdata |-> "none", elems |-> "none"]
DmIdle ==
    /\ cur = NoCollection
    /\ blockarg = [none |-> TRUE, b |-> Block(0, 0, 0, 0)]
    /\ lenres = PyNone
    /\ length = 0
    /\ dists = << >>
    /\ writes = << >>
    /\ oob = {}
    /\ engine = "none"
    /\ owner = << >>
    /\ done = {}

\* the variables of distance, while no call of it is running
\* a keyword argument: absent, None or a value
Absent == [given |-> "absent", val |-> 0]
IsNone == [given |-> "None", val |-> 0]
Given(v) == [given |-> "value", val |-> v]
NoKwargs == [window |-> Absent, max_dist |-> Absent, max_step |-> Absent,
             max_length_diff |-> Absent, penalty |-> Absent, psi |-> Absent]
DistIdle ==
    /\ s1 = << >>
    /\ s2 = << >>
    /\ kwargs = NoKwargs
    /\ boundscheck = TRUE
    /\ result2 = PyNone

(***************************************************************************)
(* SpecLen: one call of distance_matrix_length on any block and size.      *)
(***************************************************************************)
\* collection sizes around the two thresholds of the 32-bit product:
\* 65537 is the least n with n(n-1)/2 > INT_MAX, 92683 the least n with
\* n(n-1)/2 >= 2^32
LargeSeries == {65535, 65536, 65537, 65538, 92681, 92682, 92683, 92684, INT_MAX}

Blocks == {Block(rb, re, cb, ce) : rb \in 0..MaxIdx, re \in 0..MaxIdx,
                                   cb \in 0..MaxIdx, ce \in 0..MaxIdx}

InitLen ==
    /\ pc = "call"
    /\ block \in Blocks
    /\ nb_series \in (0..MaxSeries) \cup LargeSeries
    /\ result = PyNone
    /\ DmIdle
    /\ DistIdle

CallLength ==
    /\ pc = "call"
    /\ result' \in distance_matrix_length(block, nb_series)
    /\ pc' = "returned"
    /\ UNCHANGED <<lenVars, dmVars, distVars>>

NextLen == CallLength

SpecLen == InitLen /\ [][NextLen]_vars

(***************************************************************************)
(* distance_matrix                                                         *)
(***************************************************************************)
PyRaise(exc) == [kind |-> "raise", val |-> exc]
PyArray(a) == [kind |-> "array", val |-> a]

\* len(cur), line 229: the extension types DTWSeriesMatrix and
\* DTWSeriesPointers (lines 129-158) define no __len__
HasLen(c) == c.cls \notin {"DTWSeriesMatrix", "DTWSeriesPointers"}

\* lines 221-228: the DTWBlock built from the block argument
DTWBlockOf(arg) == IF arg.none THEN Block(0, 0, 0, 0) ELSE arg.b

\* line 229: the assignment of a Python object to cdef int length
AsCInt_lenient(obj) ==
    IF obj.kind = "int" THEN [ok |-> TRUE, val |-> obj.val, exc |-> "none"]
    ELSE IF obj.kind = "None" THEN [ok |-> TRUE, val |-> 0, exc |-> "none"]
    ELSE [ok |-> FALSE, val |-> 0, exc |-> "OverflowError"]

AsCInt(obj) ==
    IF obj.kind = "int" THEN [ok |-> TRUE, val |-> obj.val, exc |-> "none"]
    ELSE IF obj.kind = "None" THEN [ok |-> FALSE, val |-> 0, exc |-> "TypeError"]
    ELSE [ok |-> FALSE, val |-> 0, exc |-> "OverflowError"]

\* lines 232-235: "Correct block"
CorrectBlock(b, n) ==
    [b EXCEPT !.re = IF b.re = 0 THEN n ELSE b.re,
              !.ce = IF b.ce = 0 THEN n ELSE b.ce]

\* a slot of dists that array.resize left uninitialised
Garbage == <<-1, -1>>

\* lines 221-229: the block, distance_matrix_length(dtwblock, len(cur)) and
\* its conversion to the C int length.  (The settings of line 227 are
\* handed to the engine as they are; the distance of a pair stands for
\* dtw_distance under them.)
Length ==
    /\ pc = "start"
    /\ block' = DTWBlockOf(blockarg)
    /\ IF ~HasLen(cur)
       THEN /\ result' = PyRaise("TypeError")
            /\ pc' = "raised"
            /\ UNCHANGED <<lenres, length>>
       ELSE \E r \in distance_matrix_length(DTWBlockOf(blockarg), cur.len) :
              LET c == AsCInt(r)
              IN  /\ lenres' = r
                  /\ IF c.ok
                     THEN /\ length' = c.val
                          /\ pc' = "resize"
                          /\ UNCHANGED result
                     ELSE /\ result' = PyRaise(c.exc)
                          /\ pc' = "raised"
                          /\ UNCHANGED length
    /\ UNCHANGED <<nb_series, cur, blockarg, dists, writes, oob, engine,
                   owner, done, distVars>>

\* lines 232-238: the block is corrected, dists is created and resized to
\* length slots; the resize raises MemoryError when it cannot allocate
Resize ==
    /\ pc = "resize"
    /\ block' = CorrectBlock(block, cur.len)
    /\ \/ /\ dists' = [k \in 1..length |-> Garbage]
          /\ writes' = [k \in 1..length |-> 0]
          /\ pc' = "convert"
          /\ UNCHANGED result
       \/ /\ result' = PyRaise("MemoryError")
          /\ pc' = "raised"
          /\ UNCHANGED <<dists, writes>>
    /\ UNCHANGED <<nb_series, cur, blockarg, lenres, length, oob, engine,
                   owner, done, distVars>>

\* lines 161-176: dtw_series_from_data, by the class of data it returns or
\* the exception it raises
dtw_series_from_data(c) ==
    IF c.cls = "list"
    THEN IF c.len > 0 /\ c.elems = "nonbuffer"
         THEN PyRaise("AttributeError")
         ELSE [kind |-> "object", val |-> "DTWSeriesPointers"]
    ELSE IF c.cls = "ndarray"
    THEN [kind |-> "object", val |-> "DTWSeriesMatrix"]
    ELSE \* not a two-dimensional contiguous buffer of doubles
         PyRaise("ValueError")

\* lines 240-245: cur is kept, or replaced by cur.c_data(), or by
\* dtw_series_from_data(cur)
Converted(c) ==
    IF c.cls \in {"DTWSeriesMatrix", "DTWSeriesPointers"}
    THEN [kind |-> "object", val |-> c.cls]
    ELSE IF c.cls = "SeriesContainer"
    THEN IF c.cdata = "raise" THEN PyRaise("Exception")
         ELSE [kind |-> "object", val |-> c.cdata]
    ELSE dtw_series_from_data(c)

Convert ==
    /\ pc = "convert"
    /\ \/ LET r == Converted(cur)
          IN  IF r.kind = "raise"
              THEN /\ result' = r
                   /\ pc' = "raised"
                   /\ UNCHANGED cur
              ELSE /\ cur' = [cur EXCEPT !.cls = r.val]
                   /\ pc' = "dispatch"
                   /\ UNCHANGED result
       \/ \* line 166: DTWSeriesPointers.__cinit__ cannot malloc (131-139)
          /\ cur.cls = "list"
          /\ result' = PyRaise("MemoryError")
          /\ pc' = "raised"
          /\ UNCHANGED cur
    /\ UNCHANGED <<lenVars, blockarg, lenres, length, dists, writes, oob,
                   engine, owner, done, distVars>>

(***************************************************************************)
(* The batch engine (dtw_distances_ptrs / dtw_distances_matrix of the C    *)
(* library): every pair of the corrected block, row-major, each written to *)
(* its slot of the output; the pairs are divided among workers.            *)
(***************************************************************************)
Max(a, b) == IF a >= b THEN a ELSE b

\* the pairs of block b in the order of the engine's two loops: rows
\* rb..re-1, and in row ri the columns max(ri+1, cb)..ce-1
RECURSIVE EnginePairsFrom(_, _, _)
EnginePairsFrom(b, ri, ci) ==
    IF ri >= b.re THEN << >>
    ELSE IF ci >= b.ce THEN EnginePairsFrom(b, ri + 1, Max(ri + 2, b.cb))
    ELSE << <<ri, ci>> >> \o EnginePairsFrom(b, ri, ci + 1)

EnginePairs(b) == EnginePairsFrom(b, b.rb, Max(b.rb + 1, b.cb))

\* the number of pairs of row ri
EngineRowLength(b, ri) == Max(0, b.ce - Max(ri + 1, b.cb))

\* the slot (from 0) of pair (ri, ci): the pairs of the rows before ri, and
\* the columns of row ri before ci
RECURSIVE EngineRowOffset(_, _)
EngineRowOffset(b, ri) ==
    IF ri <= b.rb THEN 0
    ELSE EngineRowOffset(b, ri - 1) + EngineRowLength(b, ri - 1)

EngineSlot(b, ri, ci) == EngineRowOffset(b, ri) + (ci - Max(ri + 1, b.cb))

\* the ways to divide np pairs among the workers; the workers are
\* interchangeable, so a worker is used only once those before it are
Assignments(np) ==
    {f \in [1..np -> 1..NumWorkers] :
        \A k \in 1..np : \A w \in 2..f[k] : \E j \in 1..(k - 1) : f[j] = w - 1}

\* lines 247-256: the engine is called on a DTWSeriesPointers or on a
\* DTWSeriesMatrix, and on nothing else
Dispatched(c) ==
    IF c.cls = "DTWSeriesPointers" THEN "ptrs"
    ELSE IF c.cls = "DTWSeriesMatrix" THEN "matrix"
    ELSE "none"

Dispatch ==
    /\ pc = "dispatch"
    /\ engine' = Dispatched(cur)
    /\ IF engine' = "none"
       THEN owner' = << >>
       ELSE owner' \in Assignments(Len(EnginePairs(block)))
    /\ pc' = "engine"
    /\ UNCHANGED <<result, lenVars, cur, blockarg, lenres, length, dists,
                   writes, oob, done, distVars>>

\* worker w computes the next of its pairs and writes the distance (here
\* the pair itself stands for distance(ri, ci)) to the pair's slot; a slot
\* beyond the end of dists is memory that is not the buffer's
Write(w) ==
    /\ pc = "engine"
    /\ LET pending == {k \in DOMAIN owner : owner[k] = w /\ k \notin done}
       IN  /\ pending # {}
           /\ LET k == CHOOSE x \in pending : \A y \in pending : x <= y
                  p == EnginePairs(block)[k]
                  slot == EngineSlot(block, p[1], p[2])
              IN  /\ done' = done \cup {k}
                  /\ IF slot < Len(dists)
                     THEN /\ dists' = [dists EXCEPT ![slot + 1] = p]
                          /\ writes' = [writes EXCEPT ![slot + 1] = @ + 1]
                          /\ UNCHANGED oob
                     ELSE /\ oob' = oob \cup {slot}
                          /\ UNCHANGED <<dists, writes>>
    /\ UNCHANGED <<pc, result, lenVars, cur, blockarg, lenres, length,
                   engine, owner, distVars>>

\* line 258: the engine (if any was called) has returned; dists is returned
Return ==
    /\ pc = "engine"
    /\ done = DOMAIN owner
    /\ result' = PyArray(dists)
    /\ pc' = "returned"
    /\ UNCHANGED <<lenVars, dmVars, distVars>>

(***************************************************************************)
(* Spec: one call of distance_matrix.                                      *)
(***************************************************************************)
\* collection sizes whose full triangle does not fit a C int
LargeCur == {65537, 65538}

Collections ==
    {[cls |-> c, len |-> n, cdata |-> "none", elems |-> "none"] :
        c \in {"DTWSeriesMatrix", "DTWSeriesPointers", "ndarray", "other"},
        n \in (0..MaxCur) \cup LargeCur}
    \cup
    {[cls |-> "SeriesContainer", len |-> n, cdata |-> d, elems |-> "none"] :
        d \in {"DTWSeriesMatrix", "DTWSeriesPointers", "other", "raise"},
        n \in (0..MaxCur) \cup LargeCur}
    \cup
    {[cls |-> "list", len |-> n, cdata |-> "none", elems |-> e] :
        e \in {"buffers", "nonbuffer"}, n \in (0..MaxCur) \cup LargeCur}

\* the block arguments for a collection of n sequences: None, or a block
\* over its index space; of a large collection only the full triangle is
\* asked for
BlockArgs(n) ==
    {[none |-> TRUE, b |-> Block(0, 0, 0, 0)]}
    \cup
    IF n <= MaxCur
    THEN {[none |-> FALSE, b |-> Block(rb, re, cb, ce)] :
             rb \in 0..n, re \in 0..n, cb \in 0..n, ce \in 0..n}
    ELSE {}

Init ==
    /\ pc = "start"
    /\ cur \in Collections
    /\ blockarg \in BlockArgs(cur.len)
    /\ block = Block(0, 0, 0, 0)
    /\ nb_series = 0
    /\ result = PyNone
    /\ lenres = PyNone
    /\ length = 0
    /\ dists = << >>
    /\ writes = << >>
    /\ oob = {}
    /\ engine = "none"
    /\ owner = << >>
    /\ done = {}
    /\ DistIdle

Next ==
    \/ Length
    \/ Resize
    \/ Convert
    \/ Dispatch
    \/ \E w \in 1..NumWorkers : Write(w)
    \/ Return

Spec == Init /\ [][Next]_vars

(***************************************************************************)
(* DTWSettings and distance                                                *)
(***************************************************************************)
\* lines 60-91: a keyword that is absent keeps the default of
\* dtw_default_settings(), None is stored as 0, a value as itself
SettingOf(v) ==
    IF v.given = "absent" THEN 0
    ELSE IF v.given = "None" THEN 0
    ELSE v.val

DTWSettings(kw) ==
    [window |-> SettingOf(kw.window),
     max_dist |-> SettingOf(kw.max_dist),
     max_step |-> SettingOf(kw.max_step),
     max_length_diff |-> SettingOf(kw.max_length_diff),
     penalty |-> SettingOf(kw.penalty),
     psi |-> SettingOf(kw.psi)]

\* the cost of a cell that cannot be reached (+infinity)
Inf == -1

InfAdd(x, y) == IF x = Inf \/ y = Inf THEN Inf ELSE x + y
InfMin(x, y) == IF x = Inf THEN y ELSE IF y = Inf THEN x ELSE IF x <= y THEN x ELSE y
Abs(x) == IF x >= 0 THEN x ELSE 0 - x

\* the DTW recurrence: the accumulated cost of cell (i, j) of the
\* (n1+1) x (n2+1) grid
RECURSIVE DTWCost(_, _, _, _, _)
DTWCost(a, b, st, i, j) ==
    IF i = 0 /\ j = 0 THEN 0
    ELSE IF i = 0 THEN (IF j <= st.psi THEN 0 ELSE Inf)
    ELSE IF j = 0 THEN (IF i <= st.psi THEN 0 ELSE Inf)
    ELSE IF st.window # 0 /\ Abs(i - j) > st.window THEN Inf
    ELSE LET d == (a[i] - b[j]) * (a[i] - b[j])
         IN  IF st.max_step # 0 /\ d > st.max_step THEN Inf
             ELSE InfAdd(d, InfMin(DTWCost(a, b, st, i - 1, j - 1),
                            InfMin(InfAdd(DTWCost(a, b, st, i - 1, j), st.penalty),
                                   InfAdd(DTWCost(a, b, st, i, j - 1), st.penalty))))

\* the least cost over the last psi cells of the final row, from column j on
RECURSIVE DTWLastRow(_, _, _, _)
DTWLastRow(a, b, st, j) ==
    IF j >= Len(b) THEN Inf
    ELSE InfMin(DTWCost(a, b, st, Len(a), j), DTWLastRow(a, b, st, j + 1))

RECURSIVE DTWLastCol(_, _, _, _)
DTWLastCol(a, b, st, i) ==
    IF i >= Len(a) THEN Inf
    ELSE InfMin(DTWCost(a, b, st, i, Len(b)), DTWLastCol(a, b, st, i + 1))

\* dtw_distance of the C library: the accumulated squared cost of which the
\* distance is the square root, or Inf
dtw_distance(a, b, st) ==
    IF st.max_length_diff # 0 /\ Abs(Len(a) - Len(b)) > st.max_length_diff
    THEN Inf
    ELSE LET c == InfMin(DTWCost(a, b, st, Len(a), Len(b)),
                         InfMin(DTWLastRow(a, b, st, Max(0, Len(b) - st.psi)),
                                DTWLastCol(a, b, st, Max(0, Len(a) - st.psi))))
         IN  IF st.max_dist # 0 /\ c # Inf /\ c > st.max_dist THEN Inf ELSE c

PyFloat(v) == [kind |-> "float", val |-> v]

\* line 191 with &s2[0] taken without the check of the index
distance_s2_unchecked(a, b, kw, check) ==
    IF check /\ Len(a) = 0 THEN PyRaise("IndexError")
    ELSE PyFloat(dtw_distance(a, b, DTWSettings(kw)))

\* lines 179-191: &s1[0] and &s2[0] index the memoryviews, which raises
\* IndexError on an empty one when the build checks bounds
distance(a, b, kw, check) ==
    IF check /\ (Len(a) = 0 \/ Len(b) = 0) THEN PyRaise("IndexError")
    ELSE PyFloat(dtw_distance(a, b, DTWSettings(kw)))

(***************************************************************************)
(* SpecDist: distance(s1, s2) and then distance(s2, s1), same settings.    *)
(***************************************************************************)
\* the values of the elements of a sequence
SeriesValues == {0, 1, 3}

RECURSIVE SeqsUpTo(_)
SeqsUpTo(n) ==
    IF n = 0 THEN {<< >>}
    ELSE SeqsUpTo(n - 1) \cup {Append(q, v) : q \in {x \in SeqsUpTo(n - 1) : Len(x) = n - 1},
                                              v \in SeriesValues}

KwargsSet ==
    {[window |-> w, max_dist |-> md, max_step |-> ms, max_length_diff |-> ml,
      penalty |-> pe, psi |-> ps] :
        w \in {Absent, IsNone, Given(1)},
        md \in {Absent, Given(4)},
        ms \in {Absent, Given(4)},
        ml \in {Absent, Given(1)},
        pe \in {Absent, Given(1)},
        ps \in {Absent, Given(1)}}

InitDist ==
    /\ pc = "call"
    /\ result = PyNone
    /\ block = Block(0, 0, 0, 0)
    /\ nb_series = 0
    /\ DmIdle
    /\ s1 \in SeqsUpTo(MaxLen)
    /\ s2 \in SeqsUpTo(MaxLen)
    /\ kwargs \in KwargsSet
    /\ boundscheck \in BOOLEAN
    /\ result2 = PyNone

CallDistance ==
    /\ pc = "call"
    /\ result' = distance(s1, s2, kwargs, boundscheck)
    /\ pc' = "called"
    /\ UNCHANGED <<lenVars, dmVars, s1, s2, kwargs, boundscheck, result2>>

CallDistanceSwapped ==
    /\ pc = "called"
    /\ result2' = distance(s2, s1, kwargs, boundscheck)
    /\ pc' = "returned"
    /\ UNCHANGED <<result, lenVars, dmVars, s1, s2, kwargs, boundscheck>>

NextDist == CallDistance \/ CallDistanceSwapped

SpecDist == InitDist /\ [][NextDist]_vars

(***************************************************************************)
(* Properties of distance_matrix_length (under SpecLen).                   *)
(***************************************************************************)
Unrestricted(b) == b.re = 0 /\ b.ce = 0

\* n(n-1)/2 fits a C int
TriangleFitsInt(n) ==
    IF n % 2 = 0 THEN IntMulFits(n \div 2, n - 1)
                 ELSE IntMulFits((n - 1) \div 2, n)

\* n(n-1)/2, for an n of which it fits
TriangleRef(n) == (n \div 2) * (n - 1) + (n % 2) * ((n - 1) \div 2)

\* the pairs ri < ci of the rows [rb, re) and the columns [cb, ce)
BruteForcePairs(b) ==
    {p \in (b.rb..(b.re - 1)) \X (b.cb..(b.ce - 1)) : p[1] < p[2]}

\* the Block invariant of the data model
BlockInvariant(b, n) ==
    /\ 0 <= b.rb /\ b.rb <= b.re /\ b.re <= n
    /\ 0 <= b.cb /\ b.cb <= b.ce /\ b.ce <= n

\* what the specification has row ri contribute in the restricted regime
SpecRowLength(b, ri) ==
    IF b.cb <= ri THEN Max(0, b.ce - ri - 1) ELSE Max(0, b.ce - b.cb)

RECURSIVE SpecRowsLength(_, _)
SpecRowsLength(b, ri) ==
    IF ri >= b.re THEN 0 ELSE SpecRowLength(b, ri) + SpecRowsLength(b, ri + 1)

\* C2: whenever n(n-1)/2 does not fit the int in which the unrestricted
\* branch forms it, distance_matrix_length signals the overflow: it returns
\* neither a negative nor a wrapped length.  (Of a build that forms the
\* product in the width of the long, and so returns the exact length, the
\* claim says nothing.)
C2_OverflowIsSignalled ==
    (pc = "returned" /\ Unrestricted(block) /\ ~TriangleFitsInt(nb_series)
                     /\ result.kind # "bigint")
        => result.kind = "None"

\* C3: for a restricted block that satisfies the Block invariant the length
\* is the number of pairs ri < ci with ri in [rb, re) and ci in [cb, ce).
C3_RestrictedIsBruteForce ==
    (pc = "returned" /\ ~Unrestricted(block) /\ BlockInvariant(block, nb_series))
        => /\ result.kind = "int"
           /\ result.val = Cardinality(BruteForcePairs(block))

C3_Witness ==
    /\ pc = "returned"
    /\ block = Block(1, 4, 2, 5)
    /\ nb_series = 6
    /\ result = PyInt(6)

\* C4: for the unrestricted block and an n whose triangle fits, the length
\* is exactly n(n-1)/2: no remainder is lost to the division.
C4_UnrestrictedIsTriangle ==
    (pc = "returned" /\ Unrestricted(block) /\ TriangleFitsInt(nb_series))
        => /\ result.kind = "int"
           /\ result.val = TriangleRef(nb_series)
           /\ nb_series <= MaxSeries =>
                result.val = Cardinality({p \in (0..(nb_series - 1)) \X (0..(nb_series - 1)) :
                                             p[1] < p[2]})

C4_Witness ==
    /\ pc = "returned"
    /\ Unrestricted(block)
    /\ nb_series = 5
    /\ result = PyInt(10)

\* C5: in the restricted regime, whatever the block, row ri contributes
\* max(0, ce - ri - 1) when cb <= ri and max(0, ce - cb) otherwise, so the
\* length is the sum of these and is never negative.
C5_RowContributions ==
    (pc = "returned" /\ ~Unrestricted(block))
        => /\ \A ri \in block.rb..(block.re - 1) :
                 RowLength(block, ri) = SpecRowLength(block, ri)
           /\ result.kind = "int"
           /\ result.val = SpecRowsLength(block, block.rb)

(***************************************************************************)
(* Properties of distance_matrix (under Spec).                             *)
(***************************************************************************)
\* the pairs the engine iterates for block b over n sequences: re and ce
\* of 0 stand for n
ResolvedPairs(b, n) ==
    LET re == IF b.re = 0 THEN n ELSE b.re
        ce == IF b.ce = 0 THEN n ELSE b.ce
    IN  {p \in (b.rb..(re - 1)) \X (0..(ce - 1)) : p[2] >= Max(p[1] + 1, b.cb)}

\* the number of pairs of P that come before p, row-major
Rank(P, p) ==
    Cardinality({q \in P : q[1] < p[1] \/ (q[1] = p[1] /\ q[2] < p[2])})

\* C1: the buffer distance_matrix allocates has as many slots as the block,
\* with re and ce of 0 resolved to n, has pairs.
C1_BufferIsBlockLength ==
    pc \in {"convert", "dispatch", "engine", "returned"}
        => Len(dists) = Cardinality(ResolvedPairs(DTWBlockOf(blockarg), cur.len))

\* C6: when the engine has returned, slot k of the buffer holds the distance
\* of the pair of rank k, every slot of the buffer was written exactly once
\* and nothing was written elsewhere, whatever the partition and the order.
C6_SlotsAreRanks ==
    (pc = "returned" /\ engine # "none")
        => LET P == ResolvedPairs(DTWBlockOf(blockarg), cur.len)
           IN  /\ Len(dists) = Cardinality(P)
               /\ oob = {}
               /\ \A k \in DOMAIN dists : writes[k] = 1
               /\ \A p \in P : /\ Rank(P, p) < Len(dists)
                               /\ dists[Rank(P, p) + 1] = p

\* C7: an exception of distance_matrix is raised before any engine is
\* invoked and before anything is written, and a distance_matrix_length
\* that signalled the overflow (or returned a length no C int holds) ends
\* the call with an exception.
C7_ErrorsBeforeEngine ==
    /\ (pc = "raised") = (result.kind = "raise")
    /\ (pc = "raised") => (engine = "none" /\ done = {} /\ oob = {})
    /\ (pc # "start" /\ lenres.kind \in {"None", "bigint"})
          => (pc = "raised" /\ dists = << >>)

C7_Witness ==
    /\ pc = "raised"
    /\ cur.len \in LargeCur
    /\ cur.cls = "list"
    /\ lenres.kind = "None"
    /\ result = PyRaise("TypeError")

\* C8: a call that returns a buffer has dispatched to one of the two
\* engines.
C8_ReturnedIsDispatched ==
    pc = "returned" => engine \in {"ptrs", "matrix"}

(***************************************************************************)
(* Properties of distance (under SpecDist).                                *)
(***************************************************************************)
\* C9: on an empty s1 or s2 distance returns a value and raises nothing: 0
\* when both are empty, the unreachable value when one is and psi is 0.
C9_TotalOnEmpty ==
    (pc # "call" /\ (Len(s1) = 0 \/ Len(s2) = 0))
        => /\ result.kind = "float"
           /\ (Len(s1) = 0 /\ Len(s2) = 0) => result.val = 0
           /\ (Len(s1) # Len(s2) /\ DTWSettings(kwargs).psi = 0) => result.val = Inf

=============================================================================
